---- MODULE Spec2Model ----
(***************************************************************************)
(* Model of src/errors/validation_exception.rs: the ValidationError        *)
(* aggregate (a tree of leaf failures and nested aggregates), its          *)
(* construction from Python items, flatten / count / derive, and the three *)
(* output views errors(), json() and display().                            *)
(*                                                                         *)
(* Conventions.  Option<T> is a sequence of length 0 (None) or 1 (Some).   *)
(* PyResult<T> is a record [ok, val] or [ok, err].  A Python object is a   *)
(* record whose field py is its Python type name.  A Rust String that is   *)
(* sliced by byte index (the repr of an input value) is a sequence of      *)
(* UTF-8 bytes; every other string is an atomic token.                     *)
(***************************************************************************)
EXTENDS Integers, Sequences, FiniteSets, TLC

VARIABLES
    objs,          \* the live ValidationError objects of the Python process
    env,           \* the value of PYDANTIC_ERRORS_OMIT_URL in the process environment
    URL_ENV_VAR,   \* static GILOnceCell<bool>: None until first read
    last           \* the last operation called, its arguments and what it returned

vars == <<objs, env, URL_ENV_VAR, last>>

(***************************** bounds **************************************)
MaxNodes == 5         \* nodes (aggregates and leaves) of a tree that is flattened
MaxViewNodes == 3     \* nodes of a tree that is rendered, or is the receiver of derive
MaxItems == 2         \* length of the list passed to the constructor or to derive
MaxReprChars == 53    \* characters of the repr of an input value

(************************ Option and PyResult ******************************)
None == <<>>
Some(v) == <<v>>
IsSome(o) == Len(o) = 1
Unwrap(o) == o[1]

Ok(v) == [ok |-> TRUE, val |-> v]
Err(e) == [ok |-> FALSE, err |-> e]

(**************************** strings **************************************)
\* UTF-8 encoding of one code point (Rust String storage), up to 3 bytes.
Utf8(cp) ==
    IF cp < 128 THEN <<cp>>
    ELSE IF cp < 2048 THEN <<192 + (cp \div 64), 128 + (cp % 64)>>
    ELSE <<224 + (cp \div 4096), 128 + ((cp \div 64) % 64), 128 + (cp % 64)>>

RECURSIVE Encode(_)
Encode(chars) ==
    IF chars = <<>> THEN <<>> ELSE Utf8(Head(chars)) \o Encode(Tail(chars))

\* str::is_char_boundary: 0 and len are boundaries, past len is not, and
\* otherwise the byte at the index must not be a continuation byte 10xxxxxx.
is_char_boundary(s, i) ==
    IF i = 0 THEN TRUE
    ELSE IF i >= Len(s) THEN i = Len(s)
    ELSE ~(s[i + 1] \in 128..191)

\* &s[lo..hi] on a str: panics unless lo <= hi <= len and both are char boundaries.
StrSlice(s, lo, hi) ==
    IF lo >= 0 /\ lo <= hi /\ hi <= Len(s) /\ is_char_boundary(s, lo) /\ is_char_boundary(s, hi)
    THEN Ok(SubSeq(s, lo + 1, hi))
    ELSE Err(<<"panic">>)

\* Number of characters (code points) of a UTF-8 byte string.
CharCount(s) == Cardinality({i \in 1..Len(s) : ~(s[i] \in 128..191)})

(************************* macro truncate_input_value **********************)
TruncateLimit == 50
TruncateHead == 25
TruncateTail == 24
Ellipsis == <<46, 46, 46>>

\* What follows ", input_value=": Ok(bytes written) or the slicing panic.
truncate_input_value(value) ==
    IF Len(value) > TruncateLimit
    THEN LET head == StrSlice(value, 0, TruncateHead)
             tail == StrSlice(value, Len(value) - TruncateTail, Len(value))
         IN  IF head.ok /\ tail.ok
             THEN Ok(head.val \o Ellipsis \o tail.val)
             ELSE Err(<<"panic">>)
    ELSE Ok(value)

(***************************** Location ***********************************)
\* A Location is the sequence of its path segments; Location::Empty is <<>>.
Location_Empty == <<>>

\* Location::with_prefix: the segments of prefix, then those of self.
Location_with_prefix(self, prefix) == prefix \o self

\* TryFrom<Option<&PyAny>> for Location. The one conversion serves the "loc"
\* entry of a leaf dict (dict.get_item("loc")) and the optional loc_prefix
\* argument of the constructor, whose default is None: None is the empty
\* Location. A tuple or list of str / int segments is taken as it is.
Location_try_from(location) ==
    IF ~IsSome(location) THEN Ok(Location_Empty)
    ELSE IF Unwrap(location).py \in {"tuple", "list"}
         THEN Ok(Unwrap(location).items)
         ELSE Err(<<"TypeError", "Location must be a list or tuple of strings and ints">>)

(***************************** ErrorType **********************************)
\* ErrorType::new: a built-in kind by name, with the context its template needs.
ErrorType_new(type_str, context) ==
    IF type_str = "missing"
    THEN Ok([variant |-> "Missing", type_string |-> "missing", context |-> None])
    ELSE IF type_str = "greater_than"
    THEN IF IsSome(context)
         THEN Ok([variant |-> "GreaterThan", type_string |-> "greater_than", context |-> context])
         ELSE Err(<<"TypeError", "greater_than: 'gt' required in context">>)
    ELSE Err(<<"KeyError", "Invalid error type">>)

\* ErrorType::new_custom_error: wraps the caller's PydanticCustomError verbatim.
new_custom_error(custom_error) ==
    [variant |-> "CustomError", type_string |-> custom_error.error_type,
     context |-> custom_error.context]

type_string(error_type) == error_type.type_string

\* ErrorType::render_message: the kind's template, phrased by the mode; the
\* custom variant formats the caller's message with its context and fails
\* when a context value cannot be turned into text.
render_message(error_type, error_mode) ==
    IF error_type.variant = "CustomError"
    THEN IF IsSome(error_type.context) /\ ~Unwrap(error_type.context).str_ok
         THEN Err(<<"RuntimeError", "__str__ failed">>)
         ELSE Ok(<<"message of", error_type.type_string>>)
    ELSE Ok(<<"template of", error_type.type_string, error_mode>>)

\* ErrorType::py_dict: the context as a dict, or None when there is none.
py_dict(error_type) == Ok(error_type.context)

\* TryFrom<Option<&str>> for ErrorMode.
ErrorMode_try_from(error_mode) ==
    IF ~IsSome(error_mode) THEN Ok("python")
    ELSE IF Unwrap(error_mode) \in {"python", "json"} THEN Ok(Unwrap(error_mode))
    ELSE Err(<<"ValueError", "Invalid error mode">>)

(**************************** PyLineError *********************************)
PyNone == [py |-> "NoneType", repr |-> <<78, 111, 110, 101>>]

\* build_tools::safe_repr: the value's repr as a Rust string.
safe_repr(input_value) == input_value.repr

\* Mutant of PyLineError::try_from: an absent "loc" is a KeyError, as an
\* absent "type" is.
PyLineError_try_from_loc_required(value) ==
    IF value.py # "dict" THEN Err(<<"TypeError", "cannot be converted to PyDict">>)
    ELSE IF ~IsSome(value.type) THEN Err(<<"KeyError", "type">>)
    ELSE LET type_raw == Unwrap(value.type)
             error_type ==
                 IF type_raw.py = "str"
                 THEN IF IsSome(value.ctx) /\ Unwrap(value.ctx).py # "dict"
                      THEN Err(<<"TypeError", "cannot be converted to PyDict">>)
                      ELSE ErrorType_new(type_raw.s, value.ctx)
                 ELSE IF type_raw.py = "PydanticCustomError"
                 THEN Ok(new_custom_error(type_raw))
                 ELSE Err(<<"TypeError", "type should be a str or PydanticCustomError">>)
             location == IF IsSome(value.loc) THEN Location_try_from(value.loc)
                         ELSE Err(<<"KeyError", "loc">>)
             input_value == IF IsSome(value.input) THEN Unwrap(value.input) ELSE PyNone
         IN  IF ~error_type.ok THEN error_type
             ELSE IF ~location.ok THEN location
             ELSE Ok([error_type |-> error_type.val,
                      location |-> location.val,
                      input_value |-> input_value])

\* impl TryFrom<&PyAny> for PyLineError
PyLineError_try_from(value) ==
    IF value.py # "dict" THEN Err(<<"TypeError", "cannot be converted to PyDict">>)
    ELSE IF ~IsSome(value.type) THEN Err(<<"KeyError", "type">>)
    ELSE LET type_raw == Unwrap(value.type)
             error_type ==
                 IF type_raw.py = "str"
                 THEN IF IsSome(value.ctx) /\ Unwrap(value.ctx).py # "dict"
                      THEN Err(<<"TypeError", "cannot be converted to PyDict">>)
                      ELSE ErrorType_new(type_raw.s, value.ctx)
                 ELSE IF type_raw.py = "PydanticCustomError"
                 THEN Ok(new_custom_error(type_raw))
                 ELSE Err(<<"TypeError", "type should be a str or PydanticCustomError">>)
             location == Location_try_from(value.loc)
             input_value == IF IsSome(value.input) THEN Unwrap(value.input) ELSE PyNone
         IN  IF ~error_type.ok THEN error_type
             ELSE IF ~location.ok THEN location
             ELSE Ok([error_type |-> error_type.val,
                      location |-> location.val,
                      input_value |-> input_value])

\* Mutant of with_prefix: the prefix is dropped.
with_prefix_dropped(self, prefix) ==
    [error_type |-> self.error_type,
     location |-> self.location,
     input_value |-> self.input_value]

\* PyLineError::with_prefix
with_prefix(self, prefix) ==
    [error_type |-> self.error_type,
     location |-> Location_with_prefix(self.location, prefix),
     input_value |-> self.input_value]

\* PyLineError::get_error_url: format!("{url_prefix}{}", type_string)
get_error_url(self, url_prefix) == url_prefix \o <<type_string(self.error_type)>>

(************************* ValidationError ********************************)
\* ValidationError::new_with_val_errors
new_with_val_errors(line_errors, validation_errors, message, error_mode, loc_prefix) ==
    [py |-> "ValidationError",
     line_errors |-> line_errors,
     validation_errors |-> validation_errors,
     error_mode |-> error_mode,
     message |-> message,
     loc_prefix |-> loc_prefix]

\* partition_errors: items that extract as ValidationError are nested
\* aggregates, every other item must convert to a PyLineError; the first
\* failing conversion ends the loop with its error.
partition_errors(errors) ==
    LET RECURSIVE loop(_, _, _)
        loop(i, line_errors, validation_errors) ==
            IF i > Len(errors) THEN Ok(<<line_errors, validation_errors>>)
            ELSE IF errors[i].py = "ValidationError"
            THEN loop(i + 1, line_errors, Append(validation_errors, errors[i]))
            ELSE LET e == PyLineError_try_from(errors[i])
                 IN  IF ~e.ok THEN e
                     ELSE loop(i + 1, Append(line_errors, e.val), validation_errors)
    IN  loop(1, <<>>, <<>>)

\* ValidationError::py_new (#[new])
py_new(message, errors, error_mode, loc_prefix) ==
    LET parts == partition_errors(errors)
        mode == ErrorMode_try_from(error_mode)
        prefix == Location_try_from(loc_prefix)
    IN  IF ~parts.ok THEN parts
        ELSE IF ~mode.ok THEN mode
        ELSE IF ~prefix.ok THEN prefix
        ELSE Ok(new_with_val_errors(parts.val[1], parts.val[2], message, mode.val, prefix.val))

\* ValidationError::flatten_errors
RECURSIVE flatten_errors(_)

\* Mutant of flatten_errors: the nested aggregates are visited last to first.
flatten_errors_reversed(self) ==
    LET RECURSIVE extend(_, _)
        extend(res, i) ==
            IF i < 1 THEN res
            ELSE LET sub == flatten_errors(self.validation_errors[i])
                 IN  extend(res \o [k \in 1..Len(sub) |-> with_prefix(sub[k], self.loc_prefix)],
                            i - 1)
    IN  extend(self.line_errors, Len(self.validation_errors))

flatten_errors(self) ==
    LET RECURSIVE extend(_, _)
        extend(res, i) ==
            IF i > Len(self.validation_errors) THEN res
            ELSE LET sub == flatten_errors(self.validation_errors[i])
                 IN  extend(res \o [k \in 1..Len(sub) |-> with_prefix(sub[k], self.loc_prefix)],
                            i + 1)
    IN  extend(self.line_errors, 1)

\* Mutant of error_count: a nested aggregate counts as one error.
error_count_shallow(self) == Len(self.line_errors) + Len(self.validation_errors)

\* ValidationError::error_count
RECURSIVE error_count(_)
error_count(self) ==
    LET RECURSIVE add(_, _)
        add(res, i) ==
            IF i > Len(self.validation_errors) THEN res
            ELSE add(res + error_count(self.validation_errors[i]), i + 1)
    IN  add(Len(self.line_errors), 1)

\* Mutant of derive: the new parts are put after the receiver's own.
derive_appending(self, errors) ==
    LET parts == partition_errors(errors)
    IN  IF ~parts.ok THEN parts
        ELSE Ok(new_with_val_errors(self.line_errors \o parts.val[1],
                                    self.validation_errors \o parts.val[2],
                                    self.message, self.error_mode, self.loc_prefix))

\* ValidationError::derive
derive(self, errors) ==
    LET parts == partition_errors(errors)
    IN  IF ~parts.ok THEN parts
        ELSE Ok(new_with_val_errors(parts.val[1] \o self.line_errors,
                                    parts.val[2] \o self.validation_errors,
                                    self.message, self.error_mode, self.loc_prefix))

(*********************** process-wide URL settings *************************)
\* Mutant of _get_include_url_env: the variable is read as raw bytes
\* (env::var_os), so a value that is not Unicode counts as set.
get_include_url_env_any_bytes(value) ==
    IF IsSome(value) THEN Unwrap(value).len = 0 ELSE TRUE

\* _get_include_url_env: std::env::var is Err when the variable is unset or
\* is not valid Unicode, and then URLs are included.
get_include_url_env(value) ==
    IF IsSome(value) /\ Unwrap(value).unicode THEN Unwrap(value).len = 0 ELSE TRUE

\* include_url_env: URL_ENV_VAR.get_or_init; the cell after the call.
include_url_env_cell(cell, value) ==
    IF IsSome(cell) THEN cell ELSE Some(get_include_url_env(value))

\* static URL_PREFIX: "https://errors.pydantic.dev/{version}/v/"
URL_PREFIX == <<"https://errors.pydantic.dev/", "version", "/v/">>

get_url_prefix(include_url) == IF include_url THEN Some(URL_PREFIX) ELSE None

(************************** structured records *****************************)
\* PyDict::set_item on an insertion-ordered dict, kept as a sequence of entries.
set_item(dict, key, value) ==
    IF \E i \in 1..Len(dict) : dict[i].k = key
    THEN [i \in 1..Len(dict) |-> IF dict[i].k = key THEN [k |-> key, v |-> value] ELSE dict[i]]
    ELSE Append(dict, [k |-> key, v |-> value])

Keys(dict) == [i \in 1..Len(dict) |-> dict[i].k]

\* Mutant of as_dict: the url is written for the custom variant too, as
\* the JSON serializer does.
as_dict_url_for_custom(self, url_prefix, include_context, error_mode) ==
    LET msg == render_message(self.error_type, error_mode)
        context == py_dict(self.error_type)
        d1 == set_item(<<>>, "type", type_string(self.error_type))
        d2 == set_item(d1, "loc", self.location)
        d3 == set_item(d2, "msg", msg.val)
        d4 == set_item(d3, "input", self.input_value)
        d5 == IF include_context /\ IsSome(context.val)
              THEN set_item(d4, "ctx", Unwrap(context.val))
              ELSE d4
        d6 == IF IsSome(url_prefix)
              THEN set_item(d5, "url", get_error_url(self, Unwrap(url_prefix)))
              ELSE d5
    IN  IF ~msg.ok THEN msg
        ELSE IF include_context /\ ~context.ok THEN context
        ELSE Ok(d6)

\* PyLineError::as_dict
as_dict(self, url_prefix, include_context, error_mode) ==
    LET msg == render_message(self.error_type, error_mode)
        context == py_dict(self.error_type)
        d1 == set_item(<<>>, "type", type_string(self.error_type))
        d2 == set_item(d1, "loc", self.location)
        d3 == set_item(d2, "msg", msg.val)
        d4 == set_item(d3, "input", self.input_value)
        d5 == IF include_context /\ IsSome(context.val)
              THEN set_item(d4, "ctx", Unwrap(context.val))
              ELSE d4
        d6 == IF IsSome(url_prefix) /\ self.error_type.variant # "CustomError"
              THEN set_item(d5, "url", get_error_url(self, Unwrap(url_prefix)))
              ELSE d5
    IN  IF ~msg.ok THEN msg
        ELSE IF include_context /\ ~context.ok THEN context
        ELSE Ok(d6)

\* ValidationError::errors
errors(self, include_url, include_context) ==
    LET line_errors == flatten_errors(self)
        url_prefix == get_url_prefix(include_url)
        RECURSIVE fill(_, _)
        fill(index, list) ==
            IF index > Len(line_errors) THEN Ok(list)
            ELSE LET item == as_dict(line_errors[index], url_prefix, include_context,
                                     self.error_mode)
                 IN  IF ~item.ok THEN item ELSE fill(index + 1, Append(list, item.val))
    IN  fill(1, <<>>)

(******************************* JSON **************************************)
\* SerializeMap::serialize_entry
serialize_entry(map, key, value) == Append(map, [k |-> key, v |-> value])

\* impl Serialize for PyLineErrorSerializer (the size hint given to
\* serialize_map does not change what serde_json writes)
PyLineErrorSerializer_serialize(line_error, url_prefix, include_context, error_mode) ==
    LET msg == render_message(line_error.error_type, error_mode)
        context == py_dict(line_error.error_type)
        m1 == serialize_entry(<<>>, "type", type_string(line_error.error_type))
        m2 == serialize_entry(m1, "loc", line_error.location)
        m3 == serialize_entry(m2, "msg", msg.val)
        m4 == serialize_entry(m3, "input", line_error.input_value)
        m5 == IF include_context /\ IsSome(context.val)
              THEN serialize_entry(m4, "ctx", Unwrap(context.val))
              ELSE m4
        m6 == IF IsSome(url_prefix)
              THEN serialize_entry(m5, "url", get_error_url(line_error, Unwrap(url_prefix)))
              ELSE m5
    IN  IF ~msg.ok THEN msg
        ELSE IF include_context /\ ~context.ok THEN context
        ELSE Ok(m6)

\* impl Serialize for ValidationErrorSerializer
ValidationErrorSerializer_serialize(line_errors, url_prefix, include_context, error_mode) ==
    LET RECURSIVE seq(_, _)
        seq(i, elements) ==
            IF i > Len(line_errors) THEN Ok(elements)
            ELSE LET line_s == PyLineErrorSerializer_serialize(line_errors[i], url_prefix,
                                                               include_context, error_mode)
                 IN  IF ~line_s.ok THEN line_s ELSE seq(i + 1, Append(elements, line_s.val))
    IN  seq(1, <<>>)

\* json_py_err
json_py_err(error) == <<"ValueError", "Error serializing ValidationError to JSON">> \o error

\* ValidationError::json: the text is the array of elements, laid out compactly
\* or with the given indent.
json(self, indent, include_url, include_context) ==
    LET line_errors == flatten_errors(self)
        ser == ValidationErrorSerializer_serialize(line_errors, get_url_prefix(include_url),
                                                   include_context, self.error_mode)
    IN  IF ~ser.ok THEN Err(json_py_err(ser.err))
        ELSE Ok([indent |-> indent, array |-> ser.val])

(***************************** pretty text *********************************)
\* Mutant of pretty: a failure of render_message is passed on with "?", as
\* as_dict passes it on, and ends the line.
pretty_propagating(self, error_mode, url_prefix) ==
    LET rendered == render_message(self.error_type, error_mode)
        input_str == safe_repr(self.input_value)
        shown == truncate_input_value(input_str)
    IN  IF ~rendered.ok THEN rendered
        ELSE IF ~shown.ok THEN shown
        ELSE Ok([location |-> self.location,
                 message |-> rendered.val,
                 type |-> type_string(self.error_type),
                 input_value |-> shown.val,
                 input_type |-> Some(self.input_value.py),
                 url |-> IF IsSome(url_prefix) /\ self.error_type.variant # "CustomError"
                         THEN Some(get_error_url(self, Unwrap(url_prefix)))
                         ELSE None])

\* PyLineError::pretty: the parts of the line in the order they are written.
\* The slicing of truncate_input_value! can panic; no write to a String fails.
pretty(self, error_mode, url_prefix) ==
    LET rendered == render_message(self.error_type, error_mode)
        message == IF rendered.ok THEN rendered.val
                   ELSE <<"(error rendering message: ">> \o rendered.err \o <<")">>
        input_str == safe_repr(self.input_value)
        shown == truncate_input_value(input_str)
    IN  IF ~shown.ok THEN shown
        ELSE Ok([location |-> self.location,
                 message |-> message,
                 type |-> type_string(self.error_type),
                 input_value |-> shown.val,
                 input_type |-> Some(self.input_value.py),
                 url |-> IF IsSome(url_prefix) /\ self.error_type.variant # "CustomError"
                         THEN Some(get_error_url(self, Unwrap(url_prefix)))
                         ELSE None])

\* pretty_py_line_errors: the lines, joined by "\n"; a fmt::Error of any
\* line replaces them all by one line, a panic unwinds.
pretty_py_line_errors(error_mode, line_errors_iter, url_prefix) ==
    LET RECURSIVE collect(_, _)
        collect(i, lines) ==
            IF i > Len(line_errors_iter) THEN Ok(lines)
            ELSE LET line == pretty(line_errors_iter[i], error_mode, url_prefix)
                 IN  IF ~line.ok THEN line ELSE collect(i + 1, Append(lines, line.val))
        collected == collect(1, <<>>)
    IN  IF collected.ok THEN collected
        ELSE IF collected.err = <<"panic">> THEN collected
        ELSE Ok(<<[error |-> <<"[error formatting line errors: ">> \o collected.err \o <<"]">>]>>)

\* ValidationError::display, given what include_url_env returned
display(self, include_url, prefix_override) ==
    LET url_prefix == get_url_prefix(include_url)
        line_errors == flatten_errors(self)
        line_errors_string == pretty_py_line_errors(self.error_mode, line_errors, url_prefix)
        count == Len(line_errors)
        plural == IF count = 1 THEN "" ELSE "s"
    IN  IF ~line_errors_string.ok THEN Err(<<"PanicException">>)
        ELSE IF IsSome(prefix_override)
        THEN Ok([prefix |-> Unwrap(prefix_override), lines |-> line_errors_string.val])
        ELSE Ok([count |-> count, plural |-> plural, message |-> self.message,
                 lines |-> line_errors_string.val])

(************************ the caller's Python values ***********************)
PyStr(s) == [py |-> "str", s |-> s]
PyInt(repr) == [py |-> "int", repr |-> repr]
PyTuple(items) == [py |-> "tuple", items |-> items]
PyContext(str_ok) == [py |-> "dict", str_ok |-> str_ok]
PyCustomError(error_type, context) ==
    [py |-> "PydanticCustomError", error_type |-> error_type, context |-> context]
\* A dict item; each entry is what dict.get_item returns for its key.
PyDict(type, loc, input, ctx) ==
    [py |-> "dict", type |-> type, loc |-> loc, input |-> input, ctx |-> ctx]

Four == PyInt(<<52>>)

\* Items that convert to a leaf: every entry present; "loc" and "input"
\* absent; a custom error; a custom error whose context has no text form.
MissingItem == PyDict(Some(PyStr("missing")), Some(PyTuple(<<"x">>)), Some(Four), None)
GreaterThanItem == PyDict(Some(PyStr("greater_than")), None, None, Some(PyContext(TRUE)))
CustomItem == PyDict(Some(PyCustomError("my_error", None)), Some(PyTuple(<<"y">>)), Some(Four), None)
BrokenCustomItem ==
    PyDict(Some(PyCustomError("my_error", Some(PyContext(FALSE)))), Some(PyTuple(<<"z">>)), None, None)
\* Items that do not: no "type"; a "type" that is an int; not a dict at all.
NoTypeItem == PyDict(None, Some(PyTuple(<<"x">>)), Some(Four), None)
BadTypeItem == PyDict(Some(Four), Some(PyTuple(<<"x">>)), Some(Four), None)
NotADictItem == Four

LeafItems == {MissingItem, GreaterThanItem, CustomItem, BrokenCustomItem}
BadItems == {NoTypeItem, BadTypeItem, NotADictItem}
Leaves == {PyLineError_try_from(d).val : d \in LeafItems}

\* What the caller passes as (message, error_mode, loc_prefix).
Headers == {<<"User", None, None>>,
            <<"Item", Some("json"), Some(PyTuple(<<"a">>))>>,
            <<"User", None, Some(PyTuple(<<"b">>))>>}
Indents == {None, Some(2)}
PrefixOverrides == {None, Some("Validation failed")}
\* PYDANTIC_ERRORS_OMIT_URL: unset, "", "1", or bytes that are not Unicode.
EnvValues == {None, Some([unicode |-> TRUE, len |-> 0]), Some([unicode |-> TRUE, len |-> 1]),
              Some([unicode |-> FALSE, len |-> 1])}

SeqsUpTo(S, n) == UNION {[1..k -> S] : k \in 0..n}

\* Number of aggregates and leaves of a tree.
RECURSIVE NodeCount(_)
NodeCount(self) ==
    LET RECURSIVE sum(_)
        sum(i) == IF i > Len(self.validation_errors) THEN 0
                  ELSE NodeCount(self.validation_errors[i]) + sum(i + 1)
    IN  1 + Len(self.line_errors) + sum(1)

\* The aggregates of at most n nodes that the constructor can build from
\* leaves of L and the arguments of H, by number of nodes: trees[k] are the
\* aggregates of k nodes, seqs[m + 1] the sequences of aggregates of m nodes
\* in all.
TreesOfSize(L, H, k, seqs) ==
    UNION {UNION {{new_with_val_errors(le, ve, h[1], ErrorMode_try_from(h[2]).val,
                                       Location_try_from(h[3]).val)
                      : le \in [1..j -> L], ve \in seqs[k - j]}
                    : j \in 0..(k - 1)}
             : h \in H}

SeqsOfSize(m, trees, seqs) ==
    UNION {{<<t>> \o rest : t \in trees[s], rest \in seqs[m - s + 1]} : s \in 1..m}

RECURSIVE BuildTrees(_, _, _, _, _, _)
BuildTrees(L, H, n, k, trees, seqs) ==
    IF k > n THEN UNION {trees[i] : i \in 1..Len(trees)}
    ELSE LET more == Append(trees, TreesOfSize(L, H, k, seqs))
         IN  BuildTrees(L, H, n, k + 1, more,
                        IF k < n THEN Append(seqs, SeqsOfSize(k, more, seqs)) ELSE seqs)

Trees(L, H, n) == BuildTrees(L, H, n, 1, <<>>, <<{<<>>}>>)

\* A value whose repr has n characters, the p-th of them (if any) the
\* two-byte character U+00E9 and the others ASCII letters.
ReprValue(n, p) ==
    [py |-> "str", repr |-> Encode([i \in 1..n |-> IF i = p THEN 233 ELSE 97 + (i % 26)])]

(****************************** operations *********************************)
NoCall == [op |-> "none"]

\* ValidationError(message, errors, error_mode, loc_prefix=...)
PyNew(message, errs, error_mode, loc_prefix) ==
    LET r == py_new(message, errs, error_mode, loc_prefix)
    IN  /\ last' = [op |-> "py_new", errors |-> errs, message |-> message,
                    error_mode |-> error_mode, loc_prefix |-> loc_prefix, result |-> r]
        /\ UNCHANGED <<objs, env, URL_ENV_VAR>>

\* self.derive(errors)
Derive(self, errs) ==
    LET r == derive(self, errs)
    IN  /\ last' = [op |-> "derive", self |-> self, errors |-> errs, result |-> r]
        /\ UNCHANGED <<objs, env, URL_ENV_VAR>>

\* self.flatten_errors()
FlattenErrors(self) ==
    /\ last' = [op |-> "flatten_errors", self |-> self, result |-> flatten_errors(self)]
    /\ UNCHANGED <<objs, env, URL_ENV_VAR>>

\* self.error_count()
ErrorCount(self) ==
    /\ last' = [op |-> "error_count", self |-> self, result |-> error_count(self)]
    /\ UNCHANGED <<objs, env, URL_ENV_VAR>>

\* self.errors(include_url=..., include_context=...)
Errors(self, include_url, include_context) ==
    /\ last' = [op |-> "errors", self |-> self, include_url |-> include_url,
                include_context |-> include_context,
                result |-> errors(self, include_url, include_context)]
    /\ UNCHANGED <<objs, env, URL_ENV_VAR>>

\* self.json(indent=..., include_url=..., include_context=...)
Json(self, indent, include_url, include_context) ==
    /\ last' = [op |-> "json", self |-> self, indent |-> indent, include_url |-> include_url,
                include_context |-> include_context,
                result |-> json(self, indent, include_url, include_context)]
    /\ UNCHANGED <<objs, env, URL_ENV_VAR>>

\* str(self) / repr(self) (no override) and display with a prefix override;
\* the first call of the process fills URL_ENV_VAR from the environment.
Display(self, prefix_override) ==
    /\ URL_ENV_VAR' = include_url_env_cell(URL_ENV_VAR, env)
    /\ last' = [op |-> "display", self |-> self, prefix_override |-> prefix_override,
                result |-> display(self, Unwrap(URL_ENV_VAR'), prefix_override)]
    /\ UNCHANGED <<objs, env>>

\* The host program changes PYDANTIC_ERRORS_OMIT_URL (os.environ).
SetEnv(value) ==
    /\ value # env
    /\ env' = value
    /\ UNCHANGED <<objs, URL_ENV_VAR, last>>

(*************************** specifications ********************************)
Items == (LeafItems \ {BrokenCustomItem}) \cup BadItems \cup objs

\* Construction: one live aggregate, and one call of the constructor or of
\* derive with a list of at most MaxItems items (both are functions of their
\* arguments and leave every live object as it is).
Init ==
    /\ objs \in {{t} : t \in Trees({PyLineError_try_from(MissingItem).val}, Headers, MaxViewNodes)}
    /\ env = None
    /\ URL_ENV_VAR = None
    /\ last = NoCall

Next ==
    /\ last = NoCall
    /\ \E errs \in SeqsUpTo(Items, MaxItems) :
          \/ \E h \in Headers : PyNew(h[1], errs, h[2], h[3])
          \/ \E self \in objs : Derive(self, errs)

Spec == Init /\ [][Next]_vars

\* Flattening: every aggregate tree of at most MaxNodes nodes whose leaves
\* are of two kinds and whose aggregates each have a loc_prefix, <<"a">> or
\* <<"b">>.
InitFlatten ==
    /\ objs \in {{t} : t \in Trees({PyLineError_try_from(MissingItem).val,
                                     PyLineError_try_from(CustomItem).val},
                                    {h \in Headers : IsSome(h[3])}, MaxNodes)}
    /\ env = None
    /\ URL_ENV_VAR = None
    /\ last = NoCall

NextFlatten ==
    \E self \in objs :
        \/ FlattenErrors(self)
        \/ ErrorCount(self)

SpecFlatten == InitFlatten /\ [][NextFlatten]_vars

\* The three views, under every environment.
InitViews ==
    /\ objs \in {{t} : t \in Trees(Leaves, Headers, MaxViewNodes)}
    /\ env \in EnvValues
    /\ URL_ENV_VAR = None
    /\ last = NoCall

NextViews ==
    \/ \E self \in objs, include_url \in BOOLEAN, include_context \in BOOLEAN :
          \/ Errors(self, include_url, include_context)
          \/ \E indent \in Indents : Json(self, indent, include_url, include_context)
    \/ \E self \in objs, prefix_override \in PrefixOverrides : Display(self, prefix_override)
    \/ \E value \in EnvValues : SetEnv(value)

SpecViews == InitViews /\ [][NextViews]_vars

\* The pretty view of one leaf, for every length of its input's repr.
InitTrunc ==
    /\ objs \in {{new_with_val_errors(
                     <<[error_type |-> ErrorType_new("missing", None).val,
                        location |-> <<"x">>,
                        input_value |-> ReprValue(n, p)]>>,
                     <<>>, "User", "python", Location_Empty)}
                 : n \in 0..MaxReprChars, p \in 0..MaxReprChars}
    /\ env = None
    /\ URL_ENV_VAR = None
    /\ last = NoCall

NextTrunc == \E self \in objs, prefix_override \in PrefixOverrides : Display(self, prefix_override)

SpecTrunc == InitTrunc /\ [][NextTrunc]_vars

(************************ the tree, leaf by leaf ****************************)
\* A leaf of a tree is named by its path: the indices of the nested
\* aggregates entered from the root, then the index of the leaf in the
\* line_errors of the aggregate that holds it.
RECURSIVE LeafPaths(_)
LeafPaths(t) ==
    {<<j>> : j \in 1..Len(t.line_errors)}
    \cup UNION {{<<c>> \o p : p \in LeafPaths(t.validation_errors[c])}
                  : c \in 1..Len(t.validation_errors)}

RECURSIVE LeafAt(_, _)
LeafAt(t, p) ==
    IF Len(p) = 1 THEN t.line_errors[p[1]] ELSE LeafAt(t.validation_errors[p[1]], Tail(p))

\* The loc_prefix of the root and of every aggregate entered on the way,
\* outermost first, the holder of the leaf left out.
RECURSIVE PrefixAbove(_, _)
PrefixAbove(t, p) ==
    IF Len(p) = 1 THEN <<>>
    ELSE t.loc_prefix \o PrefixAbove(t.validation_errors[p[1]], Tail(p))

\* The same with the holder's own loc_prefix as the innermost part.
RECURSIVE PrefixThrough(_, _)
PrefixThrough(t, p) ==
    IF Len(p) = 1 THEN t.loc_prefix
    ELSE t.loc_prefix \o PrefixThrough(t.validation_errors[p[1]], Tail(p))

\* Own leaves come first, then the nested aggregates in stored order.
RECURSIVE Before(_, _)
Before(p, q) ==
    IF Len(p) = 1 /\ Len(q) = 1 THEN p[1] < q[1]
    ELSE IF Len(p) = 1 THEN TRUE
    ELSE IF Len(q) = 1 THEN FALSE
    ELSE IF p[1] # q[1] THEN p[1] < q[1]
    ELSE Before(Tail(p), Tail(q))

\* The position of the leaf at p in the flattened sequence.
Rank(t, p) == 1 + Cardinality({q \in LeafPaths(t) : Before(q, p)})

Flattened == last.op = "flatten_errors"

(******************************* C1 ****************************************)
\* C1 as stated: flattening a root R yields every leaf L held by a nested
\* aggregate at the location made of the loc_prefix of every aggregate from
\* R down to the one holding L, that one included, followed by L's own
\* location (p1 ++ p2 ++ L.location for L held by C inside R).
C1_Nested_prefixing_as_stated ==
    Flattened =>
        \A p \in LeafPaths(last.self) :
            Len(p) >= 2 =>
                last.result[Rank(last.self, p)].location
                    = PrefixThrough(last.self, p) \o LeafAt(last.self, p).location

\* C1, amended: flattening a root R yields every leaf L held by a nested
\* aggregate at the location made of the loc_prefix of every aggregate from
\* R down to the parent of the one holding L, outermost first, followed by
\* L's own location: p1 ++ L.location for a leaf among C's own line_errors,
\* p1 ++ p2 ++ L.location for a leaf of an aggregate nested in C. The
\* loc_prefix of the aggregate holding L is not applied to L.
C1_Nested_prefixing ==
    Flattened =>
        \A p \in LeafPaths(last.self) :
            Len(p) >= 2 =>
                /\ last.result[Rank(last.self, p)].location
                       = PrefixAbove(last.self, p) \o LeafAt(last.self, p).location
                /\ last.result[Rank(last.self, p)].error_type = LeafAt(last.self, p).error_type

\* R (prefix p1) holds C (prefix p2 # p1) which holds D (with a prefix of
\* its own) which holds a leaf with a location of its own.
C1_Witness ==
    /\ Flattened
    /\ \E p \in LeafPaths(last.self) :
          /\ Len(p) = 3
          /\ last.self.loc_prefix # <<>>
          /\ last.self.validation_errors[p[1]].loc_prefix # <<>>
          /\ last.self.validation_errors[p[1]].loc_prefix # last.self.loc_prefix
          /\ last.self.validation_errors[p[1]].validation_errors[p[2]].loc_prefix # <<>>
          /\ LeafAt(last.self, p).location # <<>>
          /\ last.result[Rank(last.self, p)].location
                 = last.self.loc_prefix \o last.self.validation_errors[p[1]].loc_prefix
                       \o LeafAt(last.self, p).location

(******************************* C3 ****************************************)
\* C3: flatten_errors() returns the node's own line_errors first, in stored
\* order and with their locations as stored, then the leaves of each nested
\* aggregate in insertion order, each flattened recursively and prefixed
\* with the loc_prefix of the aggregates above its holder; a second call on
\* the same tree returns the same sequence, and no call changes the tree.
C3_Order ==
    Flattened =>
        /\ Len(last.result) = Cardinality(LeafPaths(last.self))
        /\ \A j \in 1..Len(last.self.line_errors) : last.result[j] = last.self.line_errors[j]
        /\ \A p \in LeafPaths(last.self) :
              last.result[Rank(last.self, p)]
                  = [error_type |-> LeafAt(last.self, p).error_type,
                     location |-> PrefixAbove(last.self, p) \o LeafAt(last.self, p).location,
                     input_value |-> LeafAt(last.self, p).input_value]
        /\ last.self \in objs

C3_Repeatable ==
    (last'.op = "flatten_errors") =>
        /\ objs' = objs
        /\ (Flattened /\ last.self = last'.self) => last'.result = last.result

C3_Flatten_order_and_repeatability == [](C3_Order) /\ [][C3_Repeatable]_vars

\* A root with a loc_prefix and two nested aggregates that hold different
\* leaves: the first one's leaf comes first, both under the root's prefix.
C3_Witness ==
    /\ Flattened
    /\ Len(last.self.validation_errors) = 2
    /\ last.self.loc_prefix # <<>>
    /\ Len(last.self.validation_errors[1].line_errors) = 1
    /\ Len(last.self.validation_errors[2].line_errors) = 1
    /\ last.self.validation_errors[1].line_errors # last.self.validation_errors[2].line_errors
    /\ last.result = <<with_prefix(last.self.validation_errors[1].line_errors[1], last.self.loc_prefix),
                       with_prefix(last.self.validation_errors[2].line_errors[1], last.self.loc_prefix)>>

(******************************* C4 ****************************************)
\* C4: error_count() is the length of what flatten_errors() returns, for
\* every tree: any depth, own leaves and nested aggregates, empty ones too.
C4_Count_consistency ==
    (last.op = "error_count") => last.result = Len(flatten_errors(last.self))

\* A tree three aggregates deep with an empty aggregate beside a leaf.
C4_Witness ==
    /\ last.op = "error_count"
    /\ last.result = 2
    /\ Len(last.self.line_errors) = 1
    /\ Len(last.self.validation_errors) = 1
    /\ Len(last.self.validation_errors[1].line_errors) = 1
    /\ Len(last.self.validation_errors[1].validation_errors) = 1

(************************* the views, leaf by leaf ***************************)
ViewCalls == {"errors", "json", "display"}

\* What a view returned for the leaves, one entry per leaf.
Entries(call) ==
    CASE call.op = "errors" -> call.result.val
      [] call.op = "json" -> call.result.val.array
      [] call.op = "display" -> call.result.val.lines

HasKey(record, key) == \E i \in 1..Len(record) : record[i].k = key
ValueOf(record, key) == record[CHOOSE i \in 1..Len(record) : record[i].k = key].v

\* Whether the i-th entry of a view has a url field (errors, json) or a
\* "For further information visit" line (display).
UrlAt(call, i) ==
    IF call.op = "display" THEN IsSome(Entries(call)[i].url)
    ELSE HasKey(Entries(call)[i], "url")

IsCustom(line_error) == line_error.error_type.variant = "CustomError"

\* The call was made with the default flags.
DefaultFlags(call) ==
    CASE call.op = "errors" -> call.include_url /\ call.include_context
      [] call.op = "json" -> call.include_url /\ call.include_context /\ call.indent = None
      [] call.op = "display" -> call.prefix_override = None
      [] OTHER -> FALSE

\* PYDANTIC_ERRORS_OMIT_URL is set to a non-empty value.
ToggleSet(value) == IsSome(value) /\ Unwrap(value).len > 0

(******************************* C2 ****************************************)
\* C2: for an aggregate whose flattened leaves are all of the custom kind,
\* and whatever include_url or the URL-enable flag, errors() has no url
\* field, json() has no url field and display() has no "For further
\* information visit" line, for any leaf.
C2_Custom_kind_URL_suppression ==
    (/\ last.op \in ViewCalls
     /\ last.result.ok
     /\ \A i \in 1..Len(flatten_errors(last.self)) : IsCustom(flatten_errors(last.self)[i]))
        => \A i \in 1..Len(Entries(last)) : ~UrlAt(last, i)

(******************************* C6 ****************************************)
\* C6 as stated: URLs are included by default (the toggle unset: every leaf
\* not of the custom kind has its url), and while the environment toggle is
\* set to a non-empty value no output of display(), errors() or json()
\* called with the default flags has a url field or URL line for any leaf.
C6_Documentation_URL_opt_out_as_stated ==
    [][(/\ last' # last
        /\ last'.op \in ViewCalls
        /\ DefaultFlags(last')
        /\ last'.result.ok)
          => /\ ToggleSet(env) => \A i \in 1..Len(Entries(last')) : ~UrlAt(last', i)
             /\ ~IsSome(env) =>
                    \A i \in 1..Len(Entries(last')) :
                        ~IsCustom(flatten_errors(last'.self)[i]) => UrlAt(last', i)]_vars

\* C6, amended. The toggle governs display() only, and as the process read
\* it first: display() writes the URL line of a leaf if and only if the leaf
\* is not of the custom kind and the value recorded in URL_ENV_VAR says so.
C6_Display ==
    (last.op = "display") =>
        /\ IsSome(URL_ENV_VAR)
        /\ last.result.ok
        /\ \A i \in 1..Len(Entries(last)) :
              UrlAt(last, i) <=> (Unwrap(URL_ENV_VAR) /\ ~IsCustom(flatten_errors(last.self)[i]))

\* URL_ENV_VAR is filled once, by the first display(), and says "omit" if and
\* only if the toggle then held a non-empty value that is valid Unicode; no
\* later change of the environment changes it.
C6_Read_once ==
    IF IsSome(URL_ENV_VAR) THEN URL_ENV_VAR' = URL_ENV_VAR
    ELSE IsSome(URL_ENV_VAR') =>
            /\ last'.op = "display"
            /\ URL_ENV_VAR' = Some(~(ToggleSet(env) /\ Unwrap(env).unicode))

\* errors() and json() do not consult the toggle: a leaf not of the custom
\* kind has its url if and only if include_url was passed as true (the
\* default), under every value of the toggle.
C6_Flags ==
    (last.op \in {"errors", "json"} /\ last.result.ok) =>
        \A i \in 1..Len(Entries(last)) :
            ~IsCustom(flatten_errors(last.self)[i]) => (UrlAt(last, i) <=> last.include_url)

C6_Documentation_URL_opt_out == [](C6_Display /\ C6_Flags) /\ [][C6_Read_once]_vars

\* The toggle is "1" when display() first runs, on a tree with a leaf of a
\* built-in kind: no entry has a URL line.
C6_Witness ==
    /\ last.op = "display"
    /\ env = Some([unicode |-> TRUE, len |-> 1])
    /\ URL_ENV_VAR = Some(FALSE)
    /\ \E i \in 1..Len(Entries(last)) : ~IsCustom(flatten_errors(last.self)[i])
    /\ \A i \in 1..Len(Entries(last)) : ~UrlAt(last, i)

(******************************* C7 ****************************************)
\* C7: every record of errors() (as_dict of a leaf) has the keys type, loc,
\* msg, input, then ctx, then url, in that order; ctx is present if and only
\* if include_context is true and the error type has a context; url is
\* present if and only if a url_prefix is supplied and the error type is not
\* the custom variant, and is then the url_prefix followed by the leaf's
\* type_string.
C7_Structured_record_shape ==
    (last.op = "errors" /\ last.result.ok) =>
        /\ Len(last.result.val) = Len(flatten_errors(last.self))
        /\ \A i \in 1..Len(last.result.val) :
              LET leaf == flatten_errors(last.self)[i]
                  record == last.result.val[i]
                  ctx == last.include_context /\ IsSome(leaf.error_type.context)
                  url == last.include_url /\ ~IsCustom(leaf)
              IN  /\ Keys(record) = <<"type", "loc", "msg", "input">>
                                      \o (IF ctx THEN <<"ctx">> ELSE <<>>)
                                      \o (IF url THEN <<"url">> ELSE <<>>)
                  /\ ValueOf(record, "type") = leaf.error_type.type_string
                  /\ ValueOf(record, "loc") = leaf.location
                  /\ ValueOf(record, "input") = leaf.input_value
                  /\ ctx => ValueOf(record, "ctx") = Unwrap(leaf.error_type.context)
                  /\ url => ValueOf(record, "url") = URL_PREFIX \o <<leaf.error_type.type_string>>

\* errors() with both flags on a tree holding a leaf with a context and a
\* custom leaf: the one has all six keys, the other neither ctx nor url.
C7_Witness ==
    /\ last.op = "errors"
    /\ last.result.ok
    /\ last.include_url
    /\ last.include_context
    /\ \E i \in 1..Len(last.result.val) :
          Keys(last.result.val[i]) = <<"type", "loc", "msg", "input", "ctx", "url">>
    /\ \E i \in 1..Len(last.result.val) :
          Keys(last.result.val[i]) = <<"type", "loc", "msg", "input">>

(******************************* C8 ****************************************)
\* C8: json() emits one element per leaf of flatten_errors(), in the order
\* of errors(), and its i-th element has the field names of the i-th record
\* of errors() called with the same flags, in the same order.
C8_Cross_view_consistency ==
    (last.op = "json" /\ last.result.ok) =>
        LET records == errors(last.self, last.include_url, last.include_context)
            array == last.result.val.array
        IN  /\ records.ok
            /\ Len(array) = Len(flatten_errors(last.self))
            /\ Len(array) = Len(records.val)
            /\ \A i \in 1..Len(array) :
                  /\ Keys(array[i]) = Keys(records.val[i])
                  /\ ValueOf(array[i], "type") = ValueOf(records.val[i], "type")
                  /\ ValueOf(array[i], "loc") = ValueOf(records.val[i], "loc")

(******************************* C9 ****************************************)
\* The characters of a UTF-8 string: the byte index at which the k-th one
\* starts, the first k of them, the last k of them.
CharStart(s, k) ==
    CHOOSE i \in 1..Len(s) :
        /\ ~(s[i] \in 128..191)
        /\ Cardinality({j \in 1..i : ~(s[j] \in 128..191)}) = k

FirstChars(s, k) == IF CharCount(s) <= k THEN s ELSE SubSeq(s, 1, CharStart(s, k + 1) - 1)

LastChars(s, k) ==
    IF CharCount(s) <= k THEN s ELSE SubSeq(s, CharStart(s, CharCount(s) - k + 1), Len(s))

\* C9: in the pretty view, an input whose repr has n characters is printed
\* in full after "input_value=" if n <= 50, and as its first 25 characters,
\* three dots and its last 24 characters if n > 50.
C9_Truncation_boundary ==
    (last.op = "display") =>
        LET repr == safe_repr(last.self.line_errors[1].input_value)
        IN  /\ last.result.ok
            /\ last.result.val.lines[1].input_value
                   = IF CharCount(repr) <= 50 THEN repr
                     ELSE FirstChars(repr, 25) \o <<46, 46, 46>> \o LastChars(repr, 24)

(******************************* C5 ****************************************)
IsAggregate(item) == item.py = "ValidationError"
IsLeafItem(item) == item.py # "ValidationError"

RECURSIVE SumCounts(_)
SumCounts(aggregates) ==
    IF aggregates = <<>> THEN 0
    ELSE error_count(Head(aggregates)) + SumCounts(Tail(aggregates))

\* C5: derive(additional) returns a new aggregate whose line_errors are the
\* additional leaf items in input order followed by the receiver's, whose
\* validation_errors are the additional aggregates in input order followed
\* by the receiver's, and whose title, error mode and loc_prefix are the
\* receiver's; its error_count() is the receiver's plus the additional
\* items' counts, the leaves attached at its root are flattened with their
\* own locations, and the receiver is as it was.
C5_Result ==
    (last.op = "derive" /\ last.result.ok) =>
        LET self == last.self
            new == last.result.val
            leaf_items == SelectSeq(last.errors, IsLeafItem)
            leaves == [i \in 1..Len(leaf_items) |-> PyLineError_try_from(leaf_items[i]).val]
            aggregates == SelectSeq(last.errors, IsAggregate)
        IN  /\ new.line_errors = leaves \o self.line_errors
            /\ new.validation_errors = aggregates \o self.validation_errors
            /\ new.message = self.message
            /\ new.error_mode = self.error_mode
            /\ new.loc_prefix = self.loc_prefix
            /\ error_count(new) = error_count(self) + Len(leaves) + SumCounts(aggregates)
            /\ \A j \in 1..Len(new.line_errors) :
                  flatten_errors(new)[j].location = new.line_errors[j].location
            /\ self \in objs

C5_Frame == (last'.op = "derive") => objs' = objs

C5_Derive == [](C5_Result) /\ [][C5_Frame]_vars

\* derive on a receiver with a leaf and a nested aggregate of its own, given
\* a leaf item and an aggregate.
C5_Witness ==
    /\ last.op = "derive"
    /\ last.result.ok
    /\ Len(last.self.line_errors) = 1
    /\ Len(last.self.validation_errors) = 1
    /\ Len(last.errors) = 2
    /\ IsLeafItem(last.errors[1])
    /\ IsAggregate(last.errors[2])
    /\ Len(last.result.val.line_errors) = 2
    /\ last.result.val.line_errors[2] = last.self.line_errors[1]
    /\ last.result.val.validation_errors = <<last.errors[2]>> \o last.self.validation_errors
    /\ error_count(last.result.val) = 2 + error_count(last.errors[2])

(******************************* C10 ***************************************)
Construction == last.op \in {"py_new", "derive"}

\* What an item of the list must fail with, if anything: <<>> when it is
\* an aggregate or a well-formed leaf record.
ItemError(item, loc_required) ==
    IF IsAggregate(item) THEN <<>>
    ELSE IF item.py # "dict" THEN <<"TypeError">>
    ELSE IF ~IsSome(item.type) THEN <<"KeyError", "type">>
    ELSE IF ~(Unwrap(item.type).py \in {"str", "PydanticCustomError"}) THEN <<"TypeError">>
    ELSE IF loc_required /\ ~IsSome(item.loc) THEN <<"KeyError", "loc">>
    ELSE <<>>

\* The outcome of a construction from the list last.errors, given whether
\* a leaf record without "loc" is an error: the failure of the first bad
\* item and nothing built, or else an aggregate holding the aggregates of
\* the list and one leaf for every other item, in list order, with "input"
\* defaulting to None (and an absent "loc" giving the empty location).
ConstructionOutcome(loc_required) ==
    LET errs == last.errors
        bad == {i \in 1..Len(errs) : ItemError(errs[i], loc_required) # <<>>}
        first == CHOOSE i \in bad : \A j \in bad : i <= j
        own_leaves == IF last.op = "derive" THEN Len(last.self.line_errors) ELSE 0
        own_aggregates == IF last.op = "derive" THEN Len(last.self.validation_errors) ELSE 0
        leaf_items == SelectSeq(errs, IsLeafItem)
    IN  IF bad # {}
        THEN /\ ~last.result.ok
             /\ last.result.err[1] = ItemError(errs[first], loc_required)[1]
             /\ last.result.err[1] = "KeyError" =>
                    last.result.err = ItemError(errs[first], loc_required)
             /\ last.op = "derive" => last.self \in objs
        ELSE /\ last.result.ok
             /\ Len(last.result.val.line_errors) = Len(leaf_items) + own_leaves
             /\ \A i \in 1..Len(leaf_items) :
                   /\ last.result.val.line_errors[i].location
                          = IF IsSome(leaf_items[i].loc) THEN Unwrap(leaf_items[i].loc).items
                            ELSE <<>>
                   /\ last.result.val.line_errors[i].input_value
                          = IF IsSome(leaf_items[i].input) THEN Unwrap(leaf_items[i].input)
                            ELSE PyNone
                   /\ last.result.val.line_errors[i].error_type.type_string
                          = IF Unwrap(leaf_items[i].type).py = "str"
                            THEN Unwrap(leaf_items[i].type).s
                            ELSE Unwrap(leaf_items[i].type).error_type
             /\ SubSeq(last.result.val.validation_errors, 1,
                       Len(last.result.val.validation_errors) - own_aggregates)
                    = SelectSeq(errs, IsAggregate)

\* C10 as stated: an item is a nested aggregate if and only if it is
\* recognised as one; every other item must be a leaf record with "type" and
\* "loc": the construction fails with a KeyError naming the field when
\* "type" or "loc" is absent, with a TypeError when "type" is neither a str
\* nor a custom error, and takes None for an absent "input"; on failure no
\* aggregate is produced and the receiver of derive is unchanged.
C10_Construction_errors_as_stated == Construction => ConstructionOutcome(TRUE)

\* C10, amended: only "type" is required. The construction fails with
\* KeyError('type') when "type" is absent and with a TypeError when the item
\* is not a dict or "type" is neither a str nor a custom error; an absent
\* "loc" is not an error and gives the leaf the empty location, an absent
\* "input" gives it None; the first failing item decides, no aggregate is
\* produced then, and the receiver of derive is unchanged.
C10_Construction_errors == Construction => ConstructionOutcome(FALSE)

\* The constructor given a record with neither "loc" nor "input", then an
\* aggregate: a leaf at the empty location with input None, and the
\* aggregate nested.
C10_Witness ==
    /\ last.op = "py_new"
    /\ Len(last.errors) = 2
    /\ last.errors[1].py = "dict"
    /\ ~IsSome(last.errors[1].loc)
    /\ ~IsSome(last.errors[1].input)
    /\ IsAggregate(last.errors[2])
    /\ last.result.ok
    /\ last.result.val.line_errors[1].location = <<>>
    /\ last.result.val.line_errors[1].input_value = PyNone
    /\ last.result.val.validation_errors = <<last.errors[2]>>

(******************************* C11 ***************************************)
\* The leaves of a tree whose message cannot be rendered, by position in
\* flatten order.
FailingLeaves(self) ==
    {i \in 1..Len(flatten_errors(self)) :
        ~render_message(flatten_errors(self)[i].error_type, self.error_mode).ok}

\* C11, display(): on a tree of n flattened leaves, some of which have a
\* message that fails to render, display() returns a report with one entry
\* per leaf, in flatten order; the entry of a failing leaf has the message
\* "(error rendering message: <failure>)" and every other entry the
\* rendered message of its leaf.
C11_Display ==
    (last.op = "display") =>
        LET leaves == flatten_errors(last.self)
        IN  /\ last.result.ok
            /\ Len(last.result.val.lines) = Len(leaves)
            /\ \A i \in 1..Len(leaves) :
                  LET line == last.result.val.lines[i]
                      rendered == render_message(leaves[i].error_type, last.self.error_mode)
                  IN  /\ {"location", "message", "type"} \subseteq DOMAIN line
                      /\ line.location = leaves[i].location
                      /\ line.type = leaves[i].error_type.type_string
                      /\ line.message = IF i \in FailingLeaves(last.self)
                                        THEN <<"(error rendering message: ">>
                                                 \o rendered.err \o <<")">>
                                        ELSE rendered.val

\* C11, json(): the call fails if and only if the message of some leaf
\* fails to render, and then returns no array but the ValueError "Error
\* serializing ValidationError to JSON" wrapping the failure of the first
\* such leaf.
C11_Json ==
    (last.op = "json") =>
        LET leaves == flatten_errors(last.self)
            failing == FailingLeaves(last.self)
            first == CHOOSE i \in failing : \A j \in failing : i <= j
        IN  IF failing = {}
            THEN last.result.ok /\ Len(last.result.val.array) = Len(leaves)
            ELSE /\ ~last.result.ok
                 /\ DOMAIN last.result = {"ok", "err"}
                 /\ last.result.err
                        = <<"ValueError", "Error serializing ValidationError to JSON">>
                              \o render_message(leaves[first].error_type,
                                                last.self.error_mode).err

C11_Localized_recovery == C11_Display /\ C11_Json

\* display() of a tree with a leaf whose message renders and one whose
\* message does not: two entries, the placeholder in the second one's place.
C11_Witness ==
    /\ last.op = "display"
    /\ Len(flatten_errors(last.self)) = 2
    /\ Cardinality(FailingLeaves(last.self)) = 1
    /\ last.result.ok
    /\ Len(last.result.val.lines) = 2
    /\ \E i \in FailingLeaves(last.self) :
          last.result.val.lines[i].message
              = <<"(error rendering message: ", "RuntimeError", "__str__ failed", ")">>
    /\ \E i \in 1..2 :
          /\ i \notin FailingLeaves(last.self)
          /\ last.result.val.lines[i].message[1] \in {"template of", "message of"}

====
